---- MODULE Spec2Model ----
(***************************************************************************)
(* callbackDataBus.js: a per-key registry that coalesces concurrent        *)
(* fetches, fans the result out to every registered callback on the next   *)
(* tick, optionally caches the result for a retention period, and can      *)
(* re-fetch a key at an interval.                                          *)
(*                                                                         *)
(* The registry functions are operators over a "world" record              *)
(*   w = [q, ticks, timers, pend]                                          *)
(* q      CALLBACK_QUEUE, a function from the keys that have a record:     *)
(*        the object's own properties and, under the key "__proto__", the  *)
(*        record that an assignment to that key made its prototype         *)
(* ticks  the process.nextTick queue, oldest first                         *)
(* timers the pending setTimeout timers                                    *)
(* pend   per key, the completion closures handed to an asynchronous       *)
(*        fetchFunction that it has not called yet                         *)
(* and the clock reading t = new Date().getTime().  Each operator returns  *)
(* the world it leaves, its return value and what it threw.  A throw       *)
(* leaves the world as mutated so far, as in JavaScript.                   *)
(***************************************************************************)
EXTENDS Integers, Sequences, FiniteSets, TLC

VARIABLES CALLBACK_QUEUE, tickQueue, timers, pending, now, last, granted,
          appOwner, stored

vars == <<CALLBACK_QUEUE, tickQueue, timers, pending, now, last, granted,
          appOwner, stored>>

----------------------------------------------------------------------------
(* Bounds of the exploration *)

MaxTime == 1
MaxWork == 3

(* Retention handed to completeFetch by a scheduled fetch *)
ScheduledRetention == -1

----------------------------------------------------------------------------
(* Values *)

(* The runs explore an ordinary key: one that is neither "__proto__" nor   *)
(* the name of a property that CALLBACK_QUEUE inherits.  The operators     *)
(* below are defined for the other keys as well (Lookup).                  *)
Keys == {"k1"}
Callbacks == {"cb1", "cb2"}
nullFn == "nullFn"
Errs == {"null", "E"}
Datas == {"d1", "d2"}
Payloads == {[err |-> "null", data |-> "d1"], [err |-> "E", data |-> "d2"]}
FetchFunctions == {"fnSync", "fnAsync"}

Undefined == [tag |-> "undefined", n |-> 0]
Null == [tag |-> "null", n |-> 0]
(* A property that was never assigned; reading it gives undefined *)
Absent == [tag |-> "absent", n |-> 0]
Num(n) == [tag |-> "number", n |-> n]
Truthy(v) == v.tag = "number" /\ v.n # 0

Timeouts == {Undefined, Num(0), Num(-1), Num(1)}
Intervals == {Num(1)}

NoTimer == 0

----------------------------------------------------------------------------
(* Helpers for the JavaScript object operations *)

(* CALLBACK_QUEUE is a plain object ({}), so it inherits from               *)
(* Object.prototype, and the key "__proto__" names its prototype and not a *)
(* property of its own.                                                    *)
ProtoKey == "__proto__"

ObjectPrototypeKeys ==
    {"constructor", "hasOwnProperty", "isPrototypeOf", "propertyIsEnumerable",
     "toLocaleString", "toString", "valueOf", "__defineGetter__",
     "__defineSetter__", "__lookupGetter__", "__lookupSetter__"}

(* CALLBACK_QUEUE[key] = rec.  For "__proto__" the assignment makes rec    *)
(* the prototype of CALLBACK_QUEUE; q holds it under that key, and Lookup  *)
(* lets the other keys inherit its fields.                                 *)
Put(q, key, rec) == [k \in (DOMAIN q) \cup {key} |-> IF k = key THEN rec ELSE q[k]]

(* delete CALLBACK_QUEUE[key] removes a property of its own; "__proto__"   *)
(* is none, and the prototype stays.                                       *)
Delete(q, key) ==
    IF key = ProtoKey THEN q ELSE [k \in (DOMAIN q) \ {key} |-> q[k]]

NewRecord(cbs) ==
    [callbacks |-> cbs, results |-> <<>>, expiration |-> Undefined,
     fetchInterval |-> Absent, fetchFunction |-> "absent",
     fetchTimer |-> NoTimer]

(* The fields a record holds as properties: results and expiration until   *)
(* they are deleted, the others once they have been assigned, whatever the *)
(* value.                                                                  *)
PresentFields(rec) ==
    {"callbacks"}
    \cup (IF rec.results # <<>> THEN {"results"} ELSE {})
    \cup (IF rec.expiration # Undefined THEN {"expiration"} ELSE {})
    \cup (IF rec.fetchInterval # Absent THEN {"fetchInterval"} ELSE {})
    \cup (IF rec.fetchFunction # "absent" THEN {"fetchFunction"} ELSE {})
    \cup (IF rec.fetchTimer # NoTimer THEN {"fetchTimer"} ELSE {})

(* The fields whose value is null or undefined *)
NullishFields(rec) ==
    (IF rec.expiration = Null THEN {"expiration"} ELSE {})
    \cup (IF rec.fetchInterval \in {Undefined, Null} THEN {"fetchInterval"} ELSE {})
    \cup (IF rec.fetchFunction = "undefined" THEN {"fetchFunction"} ELSE {})

(* What `key in CALLBACK_QUEUE` and CALLBACK_QUEUE[key] find:               *)
(*   "record"   a record of the registry, q[key]                           *)
(*   "object"   an inherited value that is no record (a function of        *)
(*              Object.prototype, Object.prototype itself, or a field of   *)
(*              the record installed as prototype): each of callbacks,     *)
(*              results, fetchTimer, ... read from it is undefined         *)
(*   "nullish"  an inherited field whose value is null or undefined:       *)
(*              `key in` is true and reading a property of the value       *)
(*              throws a TypeError                                         *)
(*   "missing"  `key in` is false and CALLBACK_QUEUE[key] is undefined     *)
Lookup(q, key) ==
    IF key \in DOMAIN q THEN "record"
    ELSE IF key = ProtoKey THEN "object"
    ELSE IF ProtoKey \in DOMAIN q /\ key \in NullishFields(q[ProtoKey]) THEN "nullish"
    ELSE IF ProtoKey \in DOMAIN q /\ key \in PresentFields(q[ProtoKey]) THEN "object"
    ELSE IF key \in ObjectPrototypeKeys THEN "object"
    ELSE "missing"

UsedIds(w) ==
    {tm.id : tm \in w.timers} \cup {w.q[k].fetchTimer : k \in DOMAIN w.q}

FreshId(w) == CHOOSE i \in 1..(Cardinality(UsedIds(w)) + 1) : i \notin UsedIds(w)

(* setTimeout runs the timer after the delay, and after 1 ms when the      *)
(* delay is below 1 or above 2^31 - 1.  The runtime keeps the timers in    *)
(* one list per delay.                                                     *)
TimerDelay(delay) == IF delay < 1 \/ delay > 2147483647 THEN 1 ELSE delay

SetTimeout(w, kind, key, delay, t) ==
    [id |-> FreshId(w), kind |-> kind, key |-> key,
     delay |-> TimerDelay(delay), due |-> t + TimerDelay(delay)]

(* Mutation of NextTick: the callbacks are scheduled newest first *)
NextTickReversed(cbs, err, data) ==
    [i \in 1..Len(cbs) |-> [cb |-> cbs[Len(cbs) + 1 - i], err |-> err, data |-> data]]

(* Mutation of NextTick: the callbacks are called at once, none is queued *)
NextTickInline(cbs, err, data) == <<>>

NextTick(cbs, err, data) ==
    [i \in 1..Len(cbs) |-> [cb |-> cbs[i], err |-> err, data |-> data]]

----------------------------------------------------------------------------
(* The registry functions *)

(* Every function of the registry begins by reading a property of         *)
(* CALLBACK_QUEUE[key] behind `key in CALLBACK_QUEUE`, and throws a        *)
(* TypeError there, before it has changed anything, when the value is null *)
(* or undefined.                                                           *)
ReadThrows(q, key) ==
    /\ key \notin DOMAIN q
    /\ ProtoKey \in DOMAIN q
    /\ key \in NullishFields(q[ProtoKey])

(* The number of waiting callbacks; "TypeError" when the read throws *)
sizeOfCallbackQueue(q, key) ==
    IF ReadThrows(q, key) THEN "TypeError"
    ELSE IF key \in DOMAIN q THEN Len(q[key].callbacks) ELSE 0

(* Mutation of cachedDataFor: a result is still served at its expiration time *)
cachedDataForInclusive(q, t, key) ==
    IF key \in DOMAIN q /\ q[key].results # <<>>
    THEN IF \/ q[key].expiration.tag = "null"
            \/ (q[key].expiration.tag = "number" /\ q[key].expiration.n >= t)
         THEN [q |-> q, ret |-> q[key].results, thrown |-> "none"]
         ELSE [q |-> [q EXCEPT ![key].results = <<>>,
                               ![key].expiration = Undefined],
               ret |-> <<>>, thrown |-> "none"]
    ELSE [q |-> q, ret |-> <<>>, thrown |-> "none"]

cachedDataFor(q, t, key) ==
    IF ReadThrows(q, key) THEN [q |-> q, ret |-> <<>>, thrown |-> "TypeError"]
    ELSE IF key \in DOMAIN q /\ q[key].results # <<>>
    THEN IF \/ q[key].expiration.tag = "null"
            \/ (q[key].expiration.tag = "number" /\ q[key].expiration.n > t)
         THEN [q |-> q, ret |-> q[key].results, thrown |-> "none"]
         ELSE [q |-> [q EXCEPT ![key].results = <<>>,
                               ![key].expiration = Undefined],
               ret |-> <<>>, thrown |-> "none"]
    ELSE [q |-> q, ret |-> <<>>, thrown |-> "none"]

dataPendingFor(q, t, key) ==
    LET c == cachedDataFor(q, t, key)
    IN  IF c.thrown # "none"
        THEN [q |-> c.q, ret |-> FALSE, thrown |-> c.thrown]
        ELSE [q |-> c.q, ret |-> (c.ret # <<>> \/ sizeOfCallbackQueue(c.q, key) > 0),
              thrown |-> "none"]

(* Mutation of registerFetch: the check for a fetch in flight is missing *)
registerFetchNoJoin(w, t, key, callback, forceUpdate) ==
    LET c == cachedDataFor(w.q, t, key)
        w1 == [w EXCEPT !.q = c.q]
    IN  IF ~forceUpdate /\ c.ret # <<>>
        THEN [w |-> [w1 EXCEPT !.ticks =
                        Append(@, [cb |-> callback, err |-> c.ret[1].err,
                                   data |-> c.ret[1].data])],
              ret |-> TRUE, thrown |-> "none"]
        ELSE [w |-> [w1 EXCEPT !.q = Put(w1.q, key, NewRecord(<<callback>>))],
              ret |-> FALSE, thrown |-> "none"]

(* Mutation of registerFetch: the new owner reuses the key's record, and   *)
(* with it the cached result, instead of replacing it                      *)
registerFetchReuse(w, t, key, callback, forceUpdate) ==
    LET c == cachedDataFor(w.q, t, key)
        w1 == [w EXCEPT !.q = c.q]
    IN  IF ~forceUpdate /\ c.ret # <<>>
        THEN [w |-> [w1 EXCEPT !.ticks =
                        Append(@, [cb |-> callback, err |-> c.ret[1].err,
                                   data |-> c.ret[1].data])],
              ret |-> TRUE, thrown |-> "none"]
        ELSE IF sizeOfCallbackQueue(w1.q, key) > 0
        THEN [w |-> [w1 EXCEPT !.q[key].callbacks = Append(@, callback)],
              ret |-> TRUE, thrown |-> "none"]
        ELSE IF key \in DOMAIN w1.q
        THEN [w |-> [w1 EXCEPT !.q[key].callbacks = <<callback>>], ret |-> FALSE, thrown |-> "none"]
        ELSE [w |-> [w1 EXCEPT !.q = Put(w1.q, key, NewRecord(<<callback>>))],
              ret |-> FALSE, thrown |-> "none"]

(* Mutation of registerFetch: a cached error is not served from the cache *)
registerFetchSkipErr(w, t, key, callback, forceUpdate) ==
    LET c == cachedDataFor(w.q, t, key)
        w1 == [w EXCEPT !.q = c.q]
    IN  IF ~forceUpdate /\ c.ret # <<>> /\ c.ret[1].err = "null"
        THEN [w |-> [w1 EXCEPT !.ticks =
                        Append(@, [cb |-> callback, err |-> c.ret[1].err,
                                   data |-> c.ret[1].data])],
              ret |-> TRUE, thrown |-> "none"]
        ELSE IF sizeOfCallbackQueue(w1.q, key) > 0
        THEN [w |-> [w1 EXCEPT !.q[key].callbacks = Append(@, callback)],
              ret |-> TRUE, thrown |-> "none"]
        ELSE [w |-> [w1 EXCEPT !.q = Put(w1.q, key, NewRecord(<<callback>>))],
              ret |-> FALSE, thrown |-> "none"]

(* Mutation of registerFetch: forceUpdate is ignored *)
registerFetchNoForce(w, t, key, callback, forceUpdate) ==
    LET c == cachedDataFor(w.q, t, key)
        w1 == [w EXCEPT !.q = c.q]
    IN  IF c.ret # <<>>
        THEN [w |-> [w1 EXCEPT !.ticks =
                        Append(@, [cb |-> callback, err |-> c.ret[1].err,
                                   data |-> c.ret[1].data])],
              ret |-> TRUE, thrown |-> "none"]
        ELSE IF sizeOfCallbackQueue(w1.q, key) > 0
        THEN [w |-> [w1 EXCEPT !.q[key].callbacks = Append(@, callback)],
              ret |-> TRUE, thrown |-> "none"]
        ELSE [w |-> [w1 EXCEPT !.q = Put(w1.q, key, NewRecord(<<callback>>))],
              ret |-> FALSE, thrown |-> "none"]

registerFetch(w, t, key, callback, forceUpdate) ==
    LET c == cachedDataFor(w.q, t, key)
        w1 == [w EXCEPT !.q = c.q]
    IN  IF c.thrown # "none" THEN [w |-> w, ret |-> FALSE, thrown |-> c.thrown]
        ELSE IF ~forceUpdate /\ c.ret # <<>>
        THEN [w |-> [w1 EXCEPT !.ticks =
                        Append(@, [cb |-> callback, err |-> c.ret[1].err,
                                   data |-> c.ret[1].data])],
              ret |-> TRUE, thrown |-> "none"]
        ELSE IF sizeOfCallbackQueue(w1.q, key) > 0
        THEN [w |-> [w1 EXCEPT !.q[key].callbacks = Append(@, callback)],
              ret |-> TRUE, thrown |-> "none"]
        ELSE [w |-> [w1 EXCEPT !.q = Put(w1.q, key, NewRecord(<<callback>>))],
              ret |-> FALSE, thrown |-> "none"]

(* Mutation of completeFetch: without waiters it removes the key's record  *)
(* before it throws                                                        *)
completeFetchCleanup(w, t, key, err, data, timeout) ==
    IF sizeOfCallbackQueue(w.q, key) > 0
    THEN LET w1 == [w EXCEPT !.ticks = @ \o NextTick(w.q[key].callbacks, err, data),
                             !.q[key].callbacks = <<>>]
             rt == SetTimeout(w1, "refetch", key, w1.q[key].fetchInterval.n, t)
             w2 == IF Truthy(w1.q[key].fetchInterval)
                   THEN [w1 EXCEPT !.timers = @ \cup {rt},
                                   !.q[key].fetchTimer = rt.id]
                   ELSE w1
             et == SetTimeout(w2, "expire", key, timeout.n, t)
             w3 == IF Truthy(timeout)
                   THEN IF timeout.n > 0
                        THEN [w2 EXCEPT !.q[key].results = <<[err |-> err, data |-> data]>>,
                                        !.timers = @ \cup {et},
                                        !.q[key].expiration = Num(t + timeout.n)]
                        ELSE [w2 EXCEPT !.q[key].results = <<[err |-> err, data |-> data]>>,
                                        !.q[key].expiration = Null]
                   ELSE [w2 EXCEPT !.q = Delete(w2.q, key)]
         IN  [w |-> w3, thrown |-> "none"]
    ELSE [w |-> [w EXCEPT !.q = Delete(w.q, key)], thrown |-> "noCallbacks"]

(* Mutation of completeFetch: without a retention it keeps the result      *)
(* forever                                                                 *)
completeFetchKeep(w, t, key, err, data, timeout) ==
    IF sizeOfCallbackQueue(w.q, key) > 0
    THEN LET w1 == [w EXCEPT !.ticks = @ \o NextTick(w.q[key].callbacks, err, data),
                             !.q[key].callbacks = <<>>]
             rt == SetTimeout(w1, "refetch", key, w1.q[key].fetchInterval.n, t)
             w2 == IF Truthy(w1.q[key].fetchInterval)
                   THEN [w1 EXCEPT !.timers = @ \cup {rt},
                                   !.q[key].fetchTimer = rt.id]
                   ELSE w1
             et == SetTimeout(w2, "expire", key, timeout.n, t)
             w3 == IF Truthy(timeout) /\ timeout.n > 0
                   THEN [w2 EXCEPT !.q[key].results = <<[err |-> err, data |-> data]>>,
                                   !.timers = @ \cup {et},
                                   !.q[key].expiration = Num(t + timeout.n)]
                   ELSE [w2 EXCEPT !.q[key].results = <<[err |-> err, data |-> data]>>,
                                   !.q[key].expiration = Null]
         IN  [w |-> w3, thrown |-> "none"]
    ELSE [w |-> w, thrown |-> "noCallbacks"]

completeFetch(w, t, key, err, data, timeout) ==
    IF ReadThrows(w.q, key) THEN [w |-> w, thrown |-> "TypeError"]
    ELSE IF sizeOfCallbackQueue(w.q, key) > 0
    THEN LET w1 == [w EXCEPT !.ticks = @ \o NextTick(w.q[key].callbacks, err, data),
                             !.q[key].callbacks = <<>>]
             rt == SetTimeout(w1, "refetch", key, w1.q[key].fetchInterval.n, t)
             w2 == IF Truthy(w1.q[key].fetchInterval)
                   THEN [w1 EXCEPT !.timers = @ \cup {rt},
                                   !.q[key].fetchTimer = rt.id]
                   ELSE w1
             et == SetTimeout(w2, "expire", key, timeout.n, t)
             w3 == IF Truthy(timeout)
                   THEN IF timeout.n > 0
                        THEN [w2 EXCEPT !.q[key].results = <<[err |-> err, data |-> data]>>,
                                        !.timers = @ \cup {et},
                                        !.q[key].expiration = Num(t + timeout.n)]
                        ELSE [w2 EXCEPT !.q[key].results = <<[err |-> err, data |-> data]>>,
                                        !.q[key].expiration = Null]
                   ELSE [w2 EXCEPT !.q = Delete(w2.q, key)]
         IN  [w |-> w3, thrown |-> "none"]
    ELSE [w |-> w, thrown |-> "noCallbacks"]

(* Mutation of expireCachedData: it removes the key's record, waiters      *)
(* included                                                                *)
expireCachedDataDrop(w, key) ==
    [w EXCEPT !.q = Delete(w.q, key)]

expireCachedData(w, key) ==
    IF key \in DOMAIN w.q /\ w.q[key].results # <<>>
    THEN [w EXCEPT !.q[key].results = <<>>]
    ELSE w

(* fetchFunction is the application's: "fnSync" calls the completion        *)
(* callback before it returns, with the payload p it fetched; "fnAsync"    *)
(* keeps the callback and calls it later (action FetchDone).               *)
(* Mutation of scheduleFetch: its registration is not forced *)
(* Mutation of scheduleFetch: it does not look for a fetch in flight *)
scheduleFetchNoGuard(w, t, key, interval, fetchFunction, p) ==
    LET r == registerFetch(w, t, key, nullFn, TRUE)
        w2 == [r.w EXCEPT !.q[key].fetchInterval = interval,
                          !.q[key].fetchFunction = fetchFunction]
        c == completeFetch(w2, t, key, p.err, p.data, Num(ScheduledRetention))
    IN  IF r.ret
        THEN [w |-> r.w, ret |-> "throw", thrown |-> "registerTrue",
              grant |-> FALSE, done |-> FALSE]
        ELSE IF fetchFunction = "undefined"
        THEN [w |-> w2, ret |-> "throw", thrown |-> "TypeError",
              grant |-> TRUE, done |-> FALSE]
        ELSE IF fetchFunction = "fnSync"
        THEN [w |-> c.w, ret |-> IF c.thrown = "none" THEN "true" ELSE "throw",
              thrown |-> c.thrown, grant |-> TRUE, done |-> c.thrown = "none"]
        ELSE [w |-> [w2 EXCEPT !.pend[key] = @ + 1], ret |-> "true",
              thrown |-> "none", grant |-> TRUE, done |-> FALSE]

scheduleFetchNoForce(w, t, key, interval, fetchFunction, p) ==
    IF sizeOfCallbackQueue(w.q, key) > 0
    THEN [w |-> w, ret |-> "false", thrown |-> "none", grant |-> FALSE, done |-> FALSE]
    ELSE LET r == registerFetch(w, t, key, nullFn, FALSE)
             w2 == [r.w EXCEPT !.q[key].fetchInterval = interval,
                               !.q[key].fetchFunction = fetchFunction]
             c == completeFetch(w2, t, key, p.err, p.data, Num(ScheduledRetention))
         IN  IF r.ret
             THEN [w |-> r.w, ret |-> "throw", thrown |-> "registerTrue",
                   grant |-> FALSE, done |-> FALSE]
             ELSE IF fetchFunction = "undefined"
             THEN [w |-> w2, ret |-> "throw", thrown |-> "TypeError",
                   grant |-> TRUE, done |-> FALSE]
             ELSE IF fetchFunction = "fnSync"
             THEN [w |-> c.w, ret |-> IF c.thrown = "none" THEN "true" ELSE "throw",
                   thrown |-> c.thrown, grant |-> TRUE, done |-> c.thrown = "none"]
             ELSE [w |-> [w2 EXCEPT !.pend[key] = @ + 1], ret |-> "true",
                   thrown |-> "none", grant |-> TRUE, done |-> FALSE]

scheduleFetch(w, t, key, interval, fetchFunction, p) ==
    IF ReadThrows(w.q, key)
    THEN [w |-> w, ret |-> "throw", thrown |-> "TypeError", grant |-> FALSE,
          done |-> FALSE]
    ELSE IF sizeOfCallbackQueue(w.q, key) > 0
    THEN [w |-> w, ret |-> "false", thrown |-> "none", grant |-> FALSE, done |-> FALSE]
    ELSE LET r == registerFetch(w, t, key, nullFn, TRUE)
             w2 == [r.w EXCEPT !.q[key].fetchInterval = interval,
                               !.q[key].fetchFunction = fetchFunction]
             c == completeFetch(w2, t, key, p.err, p.data, Num(ScheduledRetention))
         IN  IF r.ret
             THEN [w |-> r.w, ret |-> "throw", thrown |-> "registerTrue",
                   grant |-> FALSE, done |-> FALSE]
             ELSE IF fetchFunction = "undefined"
             THEN [w |-> w2, ret |-> "throw", thrown |-> "TypeError",
                   grant |-> TRUE, done |-> FALSE]
             ELSE IF fetchFunction = "fnSync"
             THEN [w |-> c.w, ret |-> IF c.thrown = "none" THEN "true" ELSE "throw",
                   thrown |-> c.thrown, grant |-> TRUE, done |-> c.thrown = "none"]
             ELSE [w |-> [w2 EXCEPT !.pend[key] = @ + 1], ret |-> "true",
                   thrown |-> "none", grant |-> TRUE, done |-> FALSE]

cancelScheduleFetch(w, key) ==
    IF ReadThrows(w.q, key) THEN [w |-> w, ret |-> "throw", thrown |-> "TypeError"]
    ELSE IF sizeOfCallbackQueue(w.q, key) > 0
    THEN [w |-> w, ret |-> "false", thrown |-> "none"]
    ELSE IF key \in DOMAIN w.q /\ w.q[key].fetchTimer # NoTimer
    THEN [w |-> [w EXCEPT !.timers = {tm \in @ : tm.id # w.q[key].fetchTimer},
                          !.q = Delete(w.q, key)],
          ret |-> "undefined", thrown |-> "none"]
    ELSE [w |-> w, ret |-> "undefined", thrown |-> "none"]

(* The closure armed at completeFetch's refetch setTimeout.  It reads the   *)
(* record at the time it runs: a missing record is a TypeError, and so is  *)
(* the call of a fetchFunction the record no longer holds (inside          *)
(* scheduleFetch, after the registration).  An exception thrown in a timer *)
(* goes to the process's uncaughtException handler; the registry stays as  *)
(* the throw left it and the event loop goes on.                           *)
(* For a key that CALLBACK_QUEUE inherits (a function of Object.prototype, *)
(* say) the two reads find undefined and do not throw.                     *)
refetchTimer(w, t, key, p) ==
    IF Lookup(w.q, key) \in {"missing", "nullish"}
    THEN [w |-> w, ret |-> "throw", thrown |-> "TypeError", grant |-> FALSE,
          done |-> FALSE]
    ELSE IF Lookup(w.q, key) = "record"
    THEN scheduleFetch(w, t, key,
                       IF w.q[key].fetchInterval = Absent THEN Undefined
                       ELSE w.q[key].fetchInterval,
                       IF w.q[key].fetchFunction = "absent" THEN "undefined"
                       ELSE w.q[key].fetchFunction,
                       p)
    ELSE scheduleFetch(w, t, key, Undefined, "undefined", p)

----------------------------------------------------------------------------
(* State *)

World == [q |-> CALLBACK_QUEUE, ticks |-> tickQueue, timers |-> timers,
          pend |-> pending]

NoPayload == [err |-> "null", data |-> "d1"]

Op(op, key, cb, force, p, timeout, ret, thrown) ==
    [op |-> op, key |-> key, cb |-> cb, force |-> force, p |-> p,
     timeout |-> timeout, ret |-> ret, thrown |-> thrown, live |-> FALSE]

Bool(b) == IF b THEN "true" ELSE "false"

(* The exploration bounds the work queued at one time: waiting callbacks,  *)
(* nextTick tasks, pending timers and fetches in progress.                 *)
Work(w) ==
    Len(w.ticks) + Cardinality(w.timers)
      + Cardinality({<<k, i>> \in Keys \X (1..(MaxWork + 1)) :
                       i <= w.pend[k] + sizeOfCallbackQueue(w.q, k)})

Within(w) == Work(w) <= MaxWork

SetWorld(w) ==
    /\ Within(w)
    /\ CALLBACK_QUEUE' = w.q
    /\ tickQueue' = w.ticks
    /\ timers' = w.timers
    /\ pending' = w.pend

Init ==
    /\ CALLBACK_QUEUE = <<>>
    /\ tickQueue = <<>>
    /\ timers = {}
    /\ pending = [k \in Keys |-> 0]
    /\ now = 0
    /\ last = Op("init", "k1", nullFn, FALSE, NoPayload, Undefined, "undefined", "none")
    /\ granted = [k \in Keys |-> 0]
    /\ appOwner = [k \in Keys |-> FALSE]
    /\ stored = [k \in Keys |-> <<>>]

----------------------------------------------------------------------------
(* Bookkeeping of the history the properties speak about.                  *)
(* last        the call or event-loop step just taken, its arguments, what *)
(*             it returned or threw, and for registerFetch whether the key *)
(*             had a live cached result when it was called                 *)
(* granted[k]  ownership grants for k since its last completeFetch that    *)
(*             did not throw                                               *)
(* appOwner[k] the application holds the ownership of k's fetch            *)
(* stored[k]   the result the last completeFetch cached for k, when and    *)
(*             with which retention, until a registration that is not a    *)
(*             cache hit, a completion, a scheduleFetch or a cancellation  *)
(*             acts on k                                                   *)

Stored(p, t, d) == <<[res |-> p, at |-> t, d |-> d]>>

AfterComplete(k, c, p, timeout) ==
    /\ granted' = IF c.thrown = "none" THEN [granted EXCEPT ![k] = 0] ELSE granted
    /\ appOwner' = IF c.thrown = "none" THEN [appOwner EXCEPT ![k] = FALSE] ELSE appOwner
    /\ stored' = IF c.thrown # "none" THEN stored
                 ELSE IF Truthy(timeout)
                 THEN [stored EXCEPT ![k] = Stored(p, now, timeout.n)]
                 ELSE [stored EXCEPT ![k] = <<>>]

AfterSchedule(k, s, p) ==
    /\ granted' = IF s.done THEN [granted EXCEPT ![k] = 0]
                  ELSE IF s.grant THEN [granted EXCEPT ![k] = @ + 1]
                  ELSE granted
    /\ appOwner' = IF s.done THEN [appOwner EXCEPT ![k] = FALSE] ELSE appOwner
    /\ stored' = IF s.done THEN [stored EXCEPT ![k] = Stored(p, now, ScheduledRetention)]
                 ELSE IF s.grant THEN [stored EXCEPT ![k] = <<>>]
                 ELSE stored

----------------------------------------------------------------------------
(* Actions: the application's calls *)

RegisterFetch(k, cb, f) ==
    LET r == registerFetch(World, now, k, cb, f)
        hit == r.w.ticks # tickQueue
    IN  /\ SetWorld(r.w)
        /\ last' = [Op("registerFetch", k, cb, f, NoPayload, Undefined,
                         IF r.thrown = "none" THEN Bool(r.ret) ELSE "throw", r.thrown)
                      EXCEPT !.live = cachedDataFor(CALLBACK_QUEUE, now, k).ret # <<>>]
        /\ granted' = IF r.ret \/ r.thrown # "none" THEN granted
                      ELSE [granted EXCEPT ![k] = @ + 1]
        /\ appOwner' = IF r.ret \/ r.thrown # "none" THEN appOwner
                       ELSE [appOwner EXCEPT ![k] = TRUE]
        /\ stored' = IF hit THEN stored ELSE [stored EXCEPT ![k] = <<>>]
        /\ UNCHANGED now

CompleteFetch(k, p, timeout) ==
    LET c == completeFetch(World, now, k, p.err, p.data, timeout)
    IN  /\ SetWorld(c.w)
        /\ last' = IF c.thrown = "none"
                   THEN Op("completeFetch", k, nullFn, FALSE, p, timeout, "undefined", "none")
                   ELSE Op("completeFetch", k, nullFn, FALSE, NoPayload, Undefined,
                           "throw", c.thrown)
        /\ AfterComplete(k, c, p, timeout)
        /\ UNCHANGED now

(* completeFetch as the contract asks: by the owner, once per grant *)
CompleteFetchOwner(k, p, timeout) ==
    /\ appOwner[k]
    /\ CompleteFetch(k, p, timeout)

ScheduleFetch(k, i, fn, p) ==
    LET s == scheduleFetch(World, now, k, i, fn, p)
    IN  /\ fn = "fnAsync" => p = NoPayload
        /\ SetWorld(s.w)
        /\ last' = IF s.ret = "false"
                   THEN Op("scheduleFetch", k, nullFn, FALSE, NoPayload, Undefined,
                           "false", "none")
                   ELSE [Op("scheduleFetch", k, fn, FALSE, p, i, s.ret, s.thrown)
                           EXCEPT !.live = cachedDataFor(CALLBACK_QUEUE, now, k).ret # <<>>]
        /\ AfterSchedule(k, s, p)
        /\ UNCHANGED now

CancelScheduleFetch(k) ==
    LET c == cancelScheduleFetch(World, k)
    IN  /\ SetWorld(c.w)
        /\ last' = Op("cancelScheduleFetch", k, nullFn, FALSE, NoPayload, Undefined,
                      c.ret, c.thrown)
        /\ stored' = IF c.w.q # CALLBACK_QUEUE THEN [stored EXCEPT ![k] = <<>>] ELSE stored
        /\ UNCHANGED <<now, granted, appOwner>>

CachedDataFor(k) ==
    LET c == cachedDataFor(CALLBACK_QUEUE, now, k)
    IN  /\ CALLBACK_QUEUE' = c.q
        /\ last' = Op("cachedDataFor", k, nullFn, FALSE,
                      IF c.ret = <<>> THEN NoPayload ELSE c.ret[1], Undefined,
                      IF c.thrown # "none" THEN "throw"
                      ELSE IF c.ret = <<>> THEN "null" ELSE "results", c.thrown)
        /\ UNCHANGED <<tickQueue, timers, pending, now, granted, appOwner, stored>>

DataPendingFor(k) ==
    LET c == dataPendingFor(CALLBACK_QUEUE, now, k)
    IN  /\ CALLBACK_QUEUE' = c.q
        /\ last' = Op("dataPendingFor", k, nullFn, FALSE, NoPayload, Undefined,
                      IF c.thrown = "none" THEN Bool(c.ret) ELSE "throw", c.thrown)
        /\ UNCHANGED <<tickQueue, timers, pending, now, granted, appOwner, stored>>

----------------------------------------------------------------------------
(* Actions: the event loop *)

(* The oldest process.nextTick task runs: it invokes its callback *)
RunTick ==
    /\ tickQueue # <<>>
    /\ tickQueue' = Tail(tickQueue)
    /\ last' = Op("callback", "k1", Head(tickQueue).cb, FALSE,
                  [err |-> Head(tickQueue).err, data |-> Head(tickQueue).data],
                  Undefined, "undefined", "none")
    /\ UNCHANGED <<CALLBACK_QUEUE, timers, pending, now, granted, appOwner, stored>>

(* A timer runs once its delay has elapsed and only between tasks: the     *)
(* nextTick queue is drained before any timer.  Among the timers of one    *)
(* delay the earliest armed runs first.  Between timers of different       *)
(* delays the order is open: the runtime runs every overdue timer of the   *)
(* list it is working on before it looks at another list, so a timer can   *)
(* run while one of another delay that was due earlier is still pending.   *)
(* The event loop measures the delay on its own clock, not on the Date     *)
(* clock that `now` and the expirations are read from: a timer may run     *)
(* when the Date is still a millisecond short of the one it was armed for, *)
(* for a delay of 1 in the very millisecond it was armed in.               *)
Due(tm) ==
    /\ tm \in timers
    /\ tickQueue = <<>>
    /\ tm.due <= now + 1
    /\ \A u \in timers : u.delay = tm.delay => tm.due <= u.due

ExpireTimer(tm) ==
    /\ Due(tm)
    /\ tm.kind = "expire"
    /\ SetWorld(expireCachedData([World EXCEPT !.timers = @ \ {tm}], tm.key))
    /\ last' = Op("expireTimer", tm.key, nullFn, FALSE, NoPayload, Undefined,
                  "undefined", "none")
    /\ UNCHANGED <<now, granted, appOwner, stored>>

RefetchTimer(tm, p) ==
    LET s == refetchTimer([World EXCEPT !.timers = @ \ {tm}], now, tm.key, p)
    IN  /\ Due(tm)
        /\ tm.kind = "refetch"
        /\ (tm.key \notin DOMAIN CALLBACK_QUEUE
              \/ CALLBACK_QUEUE[tm.key].fetchFunction # "fnSync") => p = NoPayload
        /\ SetWorld(s.w)
        /\ last' = Op("refetchTimer", tm.key, nullFn, FALSE, p, Undefined, s.ret, s.thrown)
        /\ AfterSchedule(tm.key, s, p)
        /\ UNCHANGED now

(* An asynchronous fetchFunction calls the completion callback it was given *)
FetchDone(k, p) ==
    LET c == completeFetch([World EXCEPT !.pend[k] = @ - 1], now, k, p.err, p.data,
                           Num(ScheduledRetention))
    IN  /\ pending[k] > 0
        /\ SetWorld(c.w)
        /\ last' = IF c.thrown = "none"
                   THEN Op("fetchDone", k, nullFn, FALSE, p, Num(ScheduledRetention),
                           "undefined", "none")
                   ELSE Op("fetchDone", k, nullFn, FALSE, NoPayload, Num(ScheduledRetention),
                           "throw", c.thrown)
        /\ AfterComplete(k, c, p, Num(ScheduledRetention))
        /\ UNCHANGED now

(* A millisecond passes *)
Tick ==
    /\ now < MaxTime
    /\ now' = now + 1
    /\ last' = Op("tick", "k1", nullFn, FALSE, NoPayload, Undefined, "undefined", "none")
    /\ UNCHANGED <<CALLBACK_QUEUE, tickQueue, timers, pending, granted, appOwner, stored>>

----------------------------------------------------------------------------
(* Specifications *)

EventLoop ==
    \/ RunTick
    \/ \E tm \in timers : ExpireTimer(tm)
    \/ \E tm \in timers, p \in Payloads : RefetchTimer(tm, p)
    \/ \E k \in Keys, p \in Payloads : FetchDone(k, p)
    \/ Tick

Calls ==
    \/ \E k \in Keys, cb \in Callbacks, f \in BOOLEAN : RegisterFetch(k, cb, f)
    \/ \E k \in Keys, i \in Intervals, fn \in FetchFunctions, p \in Payloads :
          ScheduleFetch(k, i, fn, p)
    \/ \E k \in Keys : CancelScheduleFetch(k)
    \/ \E k \in Keys : CachedDataFor(k)
    \/ \E k \in Keys : DataPendingFor(k)

(* Any sequence of calls *)
Next ==
    \/ Calls
    \/ \E k \in Keys, p \in Payloads, d \in Timeouts : CompleteFetch(k, p, d)
    \/ EventLoop

Spec == Init /\ [][Next]_vars

(* The application keeps the contract: it calls completeFetch only as the  *)
(* owner of the fetch, once per grant.                                     *)
CorrectNext ==
    \/ Calls
    \/ \E k \in Keys, p \in Payloads, d \in Timeouts : CompleteFetchOwner(k, p, d)
    \/ EventLoop

OwnersComplete == \E k \in Keys, p \in Payloads, d \in Timeouts : CompleteFetchOwner(k, p, d)
FetchesComplete == \E k \in Keys, p \in Payloads : FetchDone(k, p)
TimersFire ==
    \/ \E tm \in timers : ExpireTimer(tm)
    \/ \E tm \in timers, p \in Payloads : RefetchTimer(tm, p)

(* Every owner completes, every fetchFunction calls back, and the event    *)
(* loop runs its tasks and timers.                                         *)
FairSpec ==
    /\ Init /\ [][CorrectNext]_vars
    /\ WF_vars(OwnersComplete)
    /\ WF_vars(FetchesComplete)
    /\ WF_vars(RunTick)
    /\ WF_vars(TimersFire)
    /\ WF_vars(Tick)

----------------------------------------------------------------------------
(* Properties *)

Live(k) == cachedDataFor(CALLBACK_QUEUE, now, k).ret # <<>>

Waiting(k) == sizeOfCallbackQueue(CALLBACK_QUEUE, k)

(* C1: single flight. A key never has more than one fetch ownership        *)
(* outstanding: between two grants for the key (registerFetch returning    *)
(* false, or scheduleFetch taking the fetch) a completeFetch for the key   *)
(* has drained its waiters.                                                *)
SingleFlight ==
    \A k \in Keys : granted[k] <= 1 /\ (granted[k] = 1 <=> Waiting(k) > 0)

SingleFlightWitness ==
    /\ last.op = "registerFetch" /\ last.ret = "true"
    /\ granted[last.key] = 1
    /\ Waiting(last.key) = 2

(* C2: joining an in-flight fetch. On a key without a record registerFetch *)
(* returns false; while the key has waiters every registerFetch, forced or *)
(* not, returns true and appends its callback at the tail of the waiters.  *)
JoinInFlight ==
    \A k \in Keys, cb \in Callbacks, f \in BOOLEAN :
        LET r == registerFetch(World, now, k, cb, f)
        IN  /\ k \notin DOMAIN CALLBACK_QUEUE => ~r.ret
            /\ Waiting(k) > 0 =>
                  /\ r.ret
                  /\ r.w.q[k].callbacks = Append(CALLBACK_QUEUE[k].callbacks, cb)
                  /\ sizeOfCallbackQueue(r.w.q, k) = Waiting(k) + 1

JoinInFlightWitness ==
    /\ last.op = "registerFetch" /\ last.ret = "true" /\ last.force
    /\ Waiting(last.key) = 2
    /\ CALLBACK_QUEUE[last.key].callbacks[2] = last.cb

(* C3: fan-out. completeFetch on a key with waiters schedules each waiting *)
(* callback once, in registration order, with the (err, data) it was       *)
(* given, behind the tasks already queued, and leaves the key without      *)
(* waiters.                                                                *)
FanOut ==
    \A k \in Keys, p \in Payloads, d \in Timeouts :
        Waiting(k) > 0 =>
            LET c == completeFetch(World, now, k, p.err, p.data, d)
                cbs == CALLBACK_QUEUE[k].callbacks
            IN  /\ c.thrown = "none"
                /\ Len(c.w.ticks) = Len(tickQueue) + Len(cbs)
                /\ SubSeq(c.w.ticks, 1, Len(tickQueue)) = tickQueue
                /\ \A i \in 1..Len(cbs) :
                      c.w.ticks[Len(tickQueue) + i] =
                          [cb |-> cbs[i], err |-> p.err, data |-> p.data]
                /\ sizeOfCallbackQueue(c.w.q, k) = 0

FanOutWitness ==
    /\ last.op = "completeFetch" /\ last.thrown = "none"
    /\ Waiting(last.key) = 0
    /\ Len(tickQueue) = 2
    /\ tickQueue[1] = [cb |-> "cb1", err |-> last.p.err, data |-> last.p.data]
    /\ tickQueue[2] = [cb |-> "cb2", err |-> last.p.err, data |-> last.p.data]

(* C4: every interested party is answered. When owners complete, fetch     *)
(* functions call back and the event loop runs, a key with waiting         *)
(* callbacks always comes to have none: its waiters have been handed to    *)
(* the nextTick queue, which the event loop drains.                        *)
EveryoneAnswered ==
    \A k \in Keys : (Waiting(k) > 0) ~> (Waiting(k) = 0)

(* C5: deferred notification. A registerFetch or completeFetch step runs   *)
(* no callback: when it returns, the tasks that were queued are still      *)
(* queued and every callback it notifies has been added behind them, one   *)
(* task for a cache hit, one per waiter for a completion.                  *)
Deferred ==
    [][/\ last'.op = "registerFetch" =>
            /\ SubSeq(tickQueue', 1, Len(tickQueue)) = tickQueue
            /\ Len(tickQueue') = Len(tickQueue)
                                  + (IF last'.live /\ ~last'.force THEN 1 ELSE 0)
       /\ last'.op = "completeFetch" =>
            /\ SubSeq(tickQueue', 1, Len(tickQueue)) = tickQueue
            /\ Len(tickQueue') = Len(tickQueue) + Waiting(last'.key)]_vars

DeferredWitness ==
    /\ last.op = "dataPendingFor" /\ last.ret = "false"
    /\ Len(tickQueue) = 2
    /\ tickQueue[1].cb = "cb1" /\ tickQueue[2].cb = "cb2"

(* C6: completeFetch on a key without waiters (no record, an empty record  *)
(* or a record that only holds a cached result) throws the "no registered  *)
(* callbacks" error and changes nothing: records, cached results, queued   *)
(* tasks and timers stay as they were.                                     *)
CompleteWithoutWaiters ==
    \A k \in Keys, p \in Payloads, d \in Timeouts :
        Waiting(k) = 0 =>
            LET c == completeFetch(World, now, k, p.err, p.data, d)
            IN  c.thrown = "noCallbacks" /\ c.w = World

CompleteWithoutWaitersWitness ==
    /\ last.op = "completeFetch" /\ last.thrown = "noCallbacks"
    /\ last.key \in DOMAIN CALLBACK_QUEUE
    /\ CALLBACK_QUEUE[last.key].results # <<>>
    /\ timers # {}

(* C7: cache hit. With a live cached result, a registerFetch that is not   *)
(* forced returns true and queues the callback with the cached (err,       *)
(* data), a cached error included; records, waiters, cached result,        *)
(* expiration and timers are untouched and nobody becomes owner.           *)
CacheHit ==
    \A k \in Keys, cb \in Callbacks :
        Live(k) =>
            LET r == registerFetch(World, now, k, cb, FALSE)
                res == cachedDataFor(CALLBACK_QUEUE, now, k).ret[1]
            IN  /\ r.ret
                /\ r.w.ticks = Append(tickQueue, [cb |-> cb, err |-> res.err,
                                                  data |-> res.data])
                /\ r.w.q = CALLBACK_QUEUE
                /\ r.w.timers = timers
                /\ r.w.pend = pending

CacheHitWitness ==
    /\ last.op = "registerFetch" /\ last.ret = "true" /\ ~last.force /\ last.live
    /\ Live(last.key)
    /\ ~appOwner[last.key] /\ Waiting(last.key) = 0
    /\ tickQueue # <<>>
    /\ tickQueue[Len(tickQueue)] = [cb |-> last.cb, err |-> "E", data |-> "d2"]
    /\ CALLBACK_QUEUE[last.key].results = <<[err |-> "E", data |-> "d2"]>>

(* C8: force update. With a live cached result and no fetch in flight, a   *)
(* forced registerFetch returns false, the waiters become exactly its      *)
(* callback, and no task is queued for the callback with the old result.   *)
ForceUpdate ==
    \A k \in Keys, cb \in Callbacks :
        Live(k) /\ Waiting(k) = 0 =>
            LET r == registerFetch(World, now, k, cb, TRUE)
            IN  /\ ~r.ret
                /\ r.w.q[k].callbacks = <<cb>>
                /\ r.w.ticks = tickQueue

ForceUpdateWitness ==
    /\ last.op = "registerFetch" /\ last.ret = "false" /\ last.force /\ last.live
    /\ CALLBACK_QUEUE[last.key].callbacks = <<last.cb>>
    /\ appOwner[last.key]
    /\ tickQueue = <<>>

(* C9: expiry. Once the retention d > 0 of the result last cached for a    *)
(* key has elapsed, and nothing else has acted on the key since it was     *)
(* cached, cachedDataFor returns null and dataPendingFor false, whether    *)
(* the expiration timer has run or not, and a registerFetch returns false. *)
Expiry ==
    \A k \in Keys :
        (/\ stored[k] # <<>>
         /\ stored[k][1].d > 0
         /\ now >= stored[k][1].at + stored[k][1].d) =>
            /\ cachedDataFor(CALLBACK_QUEUE, now, k).ret = <<>>
            /\ ~dataPendingFor(CALLBACK_QUEUE, now, k).ret
            /\ \A cb \in Callbacks, f \in BOOLEAN :
                  ~registerFetch(World, now, k, cb, f).ret

ExpiryWitness ==
    /\ last.op = "cachedDataFor" /\ last.ret = "null"
    /\ stored[last.key] # <<>>
    /\ stored[last.key][1].d > 0
    /\ now >= stored[last.key][1].at + stored[last.key][1].d
    /\ \E tm \in timers : tm.kind = "expire" /\ tm.key = last.key

(* C10: a cached result lives for its own retention. The result R that     *)
(* completeFetch cached for a key at time t with retention d is what       *)
(* cachedDataFor returns at every time before t + d when d > 0, and at     *)
(* every time when d < 0, as long as no later registration that is not a   *)
(* cache hit, completion, scheduleFetch or cancellation acts on the key;   *)
(* an expiration timer of an earlier completeFetch has no effect on R.     *)
(* R's own expiration timer is granted the millisecond by which the event  *)
(* loop may run it ahead of the Date clock.                                *)
OwnRetention ==
    \A k \in Keys :
        (/\ stored[k] # <<>>
         /\ (stored[k][1].d < 0 \/ now < stored[k][1].at + stored[k][1].d - 1)) =>
            cachedDataFor(CALLBACK_QUEUE, now, k).ret = <<stored[k][1].res>>

(* C11: zero retention keeps forever. completeFetch with retention 0 on a  *)
(* key with waiters caches (err, data) with no expiration, as a negative   *)
(* retention does: afterwards cachedDataFor returns the result and a       *)
(* registerFetch that is not forced returns true.                          *)
ZeroRetention ==
    \A k \in Keys, p \in Payloads :
        Waiting(k) > 0 =>
            LET c == completeFetch(World, now, k, p.err, p.data, Num(0))
            IN  /\ c.w.q = completeFetch(World, now, k, p.err, p.data, Num(-1)).w.q
                /\ cachedDataFor(c.w.q, now, k).ret = <<p>>
                /\ \A cb \in Callbacks : registerFetch(c.w, now, k, cb, FALSE).ret

(* C12: no retention, no caching. completeFetch without a retention on a   *)
(* key with waiters removes the key's record: afterwards cachedDataFor     *)
(* returns null, dataPendingFor false, and the next registerFetch returns  *)
(* false and starts a new cycle with its callback as the only waiter.      *)
NoRetention ==
    \A k \in Keys, p \in Payloads :
        Waiting(k) > 0 =>
            LET c == completeFetch(World, now, k, p.err, p.data, Undefined)
            IN  /\ c.thrown = "none"
                /\ k \notin DOMAIN c.w.q
                /\ cachedDataFor(c.w.q, now, k).ret = <<>>
                /\ ~dataPendingFor(c.w.q, now, k).ret
                /\ \A cb \in Callbacks :
                      LET r == registerFetch(c.w, now, k, cb, FALSE)
                      IN  ~r.ret /\ r.w.q[k] = NewRecord(<<cb>>)

NoRetentionWitness ==
    /\ last.op = "completeFetch" /\ last.thrown = "none" /\ last.timeout = Undefined
    /\ last.key \notin DOMAIN CALLBACK_QUEUE
    /\ Len(tickQueue) = 2
    /\ ~appOwner[last.key]

(* C13: scheduleFetch on a key without waiters, with or without a live     *)
(* cached result, returns true and takes the fetch; fetchFunction is       *)
(* invoked once before it returns: a synchronous one has completed once    *)
(* (one task for nullFn is queued), an asynchronous one holds its          *)
(* completion callback with nullFn as the waiter.  The (err, data) given   *)
(* to the completion callback becomes the cached result, with no           *)
(* expiration.                                                             *)
ScheduleTakesFetch ==
    \A k \in Keys, i \in Intervals, p \in Payloads :
        Waiting(k) = 0 =>
            LET s == scheduleFetch(World, now, k, i, "fnSync", p)
                a == scheduleFetch(World, now, k, i, "fnAsync", p)
                c == completeFetch([a.w EXCEPT !.pend[k] = @ - 1], now, k, p.err, p.data,
                                   Num(ScheduledRetention))
            IN  /\ s.ret = "true" /\ s.grant
                /\ s.w.ticks = Append(tickQueue, [cb |-> nullFn, err |-> p.err,
                                                  data |-> p.data])
                /\ s.w.pend = pending
                /\ s.w.q[k].results = <<p>> /\ s.w.q[k].expiration = Null
                /\ cachedDataFor(s.w.q, now, k).ret = <<p>>
                /\ a.ret = "true" /\ a.grant
                /\ a.w.pend[k] = pending[k] + 1
                /\ a.w.q[k].callbacks = <<nullFn>>
                /\ a.w.ticks = tickQueue
                /\ c.thrown = "none"
                /\ c.w.q[k].results = <<p>> /\ c.w.q[k].expiration = Null
                /\ cachedDataFor(c.w.q, now, k).ret = <<p>>

ScheduleTakesFetchWitness ==
    /\ last.op = "scheduleFetch" /\ last.ret = "true" /\ last.cb = "fnSync"
    /\ last.live
    /\ CALLBACK_QUEUE[last.key].results = <<last.p>>
    /\ last.p = [err |-> "E", data |-> "d2"]
    /\ CALLBACK_QUEUE[last.key].expiration = Null
    /\ CALLBACK_QUEUE[last.key].fetchFunction = "fnSync"

(* C14: a scheduled key always serves.  While the key's record holds the   *)
(* fetchFunction of a schedule (scheduleFetch has returned true and        *)
(* neither a cancellation nor a forced registration has removed it), a     *)
(* registerFetch that is not forced returns true; without a scheduled      *)
(* fetch in flight its callback is queued with the result that the last    *)
(* scheduled fetch stored.                                                 *)
ScheduledServes ==
    \A k \in Keys, cb \in Callbacks :
        (k \in DOMAIN CALLBACK_QUEUE /\ CALLBACK_QUEUE[k].fetchFunction \in FetchFunctions) =>
            LET r == registerFetch(World, now, k, cb, FALSE)
            IN  /\ r.ret
                /\ Waiting(k) = 0 =>
                      /\ stored[k] # <<>>
                      /\ r.w.ticks = Append(tickQueue, [cb |-> cb,
                                                        err |-> stored[k][1].res.err,
                                                        data |-> stored[k][1].res.data])

(* C15: recurrence until cancelled.  A record that holds the fetchFunction *)
(* of a schedule keeps holding one through every step that is not a        *)
(* cancelScheduleFetch, a forced registerFetch included: the refetch timer *)
(* reads interval and fetchFunction from the record when it fires, so this *)
(* is what the next scheduled fetch needs.                                 *)
ScheduleKept ==
    [][\A k \in Keys :
          (/\ k \in DOMAIN CALLBACK_QUEUE
           /\ CALLBACK_QUEUE[k].fetchFunction \in FetchFunctions
           /\ last'.op # "cancelScheduleFetch") =>
              /\ k \in DOMAIN CALLBACK_QUEUE'
              /\ CALLBACK_QUEUE'[k].fetchFunction \in FetchFunctions
              /\ Truthy(CALLBACK_QUEUE'[k].fetchInterval)]_vars

(* C16: scheduleFetch on a key with waiters returns false and changes      *)
(* nothing: fetchFunction is not invoked, and records (waiters, cached     *)
(* result, refetch configuration), queued tasks and timers stay as they    *)
(* were.                                                                   *)
ScheduleInFlight ==
    \A k \in Keys, i \in Intervals, fn \in FetchFunctions, p \in Payloads :
        Waiting(k) > 0 =>
            LET s == scheduleFetch(World, now, k, i, fn, p)
            IN  /\ s.ret = "false" /\ s.thrown = "none"
                /\ ~s.grant /\ ~s.done
                /\ s.w = World

ScheduleInFlightWitness ==
    /\ last.op = "scheduleFetch" /\ last.ret = "false"
    /\ CALLBACK_QUEUE[last.key].callbacks = <<nullFn, "cb1">>
    /\ CALLBACK_QUEUE[last.key].fetchFunction = "fnAsync"
    /\ pending[last.key] = 1
    /\ granted[last.key] = 1

(* C17: cancellation is final.  cancelScheduleFetch on a key without       *)
(* waiters leaves no refetch timer pending for the key, so that none fires *)
(* later and nothing refreshes the key or gives it waiters; when the       *)
(* record's refetch timer was pending, the record and its cached result    *)
(* are removed.                                                            *)
CancelFinal ==
    \A k \in Keys :
        Waiting(k) = 0 =>
            LET c == cancelScheduleFetch(World, k)
            IN  /\ c.ret = "undefined"
                /\ \A tm \in c.w.timers : ~(tm.kind = "refetch" /\ tm.key = k)
                /\ sizeOfCallbackQueue(c.w.q, k) = 0
                /\ (/\ k \in DOMAIN CALLBACK_QUEUE
                    /\ \E tm \in timers : tm.id = CALLBACK_QUEUE[k].fetchTimer) =>
                      /\ k \notin DOMAIN c.w.q
                      /\ ~dataPendingFor(c.w.q, now, k).ret

(* C18: record existence.  A key has a record exactly when it has waiters, *)
(* a cached result, or a refetch configuration; a cached result past its   *)
(* expiration is granted to the record until its expiration timer or a     *)
(* read has removed it.  No empty record remains.                          *)
RecordExists ==
    \A k \in Keys :
        k \in DOMAIN CALLBACK_QUEUE <=>
            \/ Waiting(k) > 0
            \/ Live(k)
            \/ k \in DOMAIN CALLBACK_QUEUE /\ CALLBACK_QUEUE[k].results # <<>>
            \/ k \in DOMAIN CALLBACK_QUEUE /\ Truthy(CALLBACK_QUEUE[k].fetchInterval)

(* C19: cached data survives a forced registration.  When a forced         *)
(* registerFetch takes the fetch of a key with a live cached result, the   *)
(* result stays: cachedDataFor still returns it, and a registerFetch that  *)
(* is not forced is served from it.                                        *)
SurvivesForce ==
    \A k \in Keys, cb \in Callbacks :
        Live(k) /\ Waiting(k) = 0 =>
            LET r == registerFetch(World, now, k, cb, TRUE)
                res == cachedDataFor(CALLBACK_QUEUE, now, k).ret
            IN  /\ ~r.ret
                /\ cachedDataFor(r.w.q, now, k).ret = res
                /\ \A cb2 \in Callbacks :
                      LET r2 == registerFetch(r.w, now, k, cb2, FALSE)
                      IN  /\ r2.ret
                          /\ r2.w.ticks = Append(tickQueue, [cb |-> cb2, err |-> res[1].err,
                                                             data |-> res[1].data])

(* C20: no fatal error under correct usage.  When completeFetch is called  *)
(* only by the owner, once per grant, no step has thrown "no registered    *)
(* callbacks" or "register returned true", and none can: the owner's       *)
(* completeFetch and the completion of a fetchFunction in progress find    *)
(* waiters, and neither a scheduleFetch by the application nor the one of  *)
(* a pending refetch timer finds its registration answered true.           *)
NoFatal ==
    /\ last.thrown \notin {"noCallbacks", "registerTrue"}
    /\ \A k \in Keys, p \in Payloads :
          /\ appOwner[k] =>
                \A d \in Timeouts :
                    completeFetch(World, now, k, p.err, p.data, d).thrown = "none"
          /\ pending[k] > 0 =>
                completeFetch([World EXCEPT !.pend[k] = @ - 1], now, k, p.err, p.data,
                              Num(ScheduledRetention)).thrown = "none"
          /\ \A i \in Intervals, fn \in FetchFunctions :
                scheduleFetch(World, now, k, i, fn, p).thrown
                    \notin {"noCallbacks", "registerTrue"}
    /\ \A tm \in timers, p \in Payloads :
          tm.kind = "refetch" =>
              refetchTimer([World EXCEPT !.timers = @ \ {tm}], now, tm.key, p).thrown
                  \notin {"noCallbacks", "registerTrue"}

NoFatalWitness ==
    /\ last.op = "refetchTimer" /\ last.ret = "true" /\ last.thrown = "none"
    /\ CALLBACK_QUEUE[last.key].fetchFunction = "fnSync"
    /\ CALLBACK_QUEUE[last.key].results = <<last.p>>
    /\ tickQueue = <<[cb |-> nullFn, err |-> last.p.err, data |-> last.p.data]>>
    /\ \E tm \in timers : tm.kind = "expire"

(* C21: refetch-timer invariant.  A key has at most one refetch timer      *)
(* pending, and while one is pending the key's record exists, holds the    *)
(* interval and the fetchFunction the timer will use, and holds the        *)
(* timer's handle in fetchTimer, so that cancelScheduleFetch can clear it  *)
(* and it never fires against a missing record or one without a schedule.  *)
RefetchTimerKnown ==
    \A tm \in timers :
        tm.kind = "refetch" =>
            /\ \A u \in timers : (u.kind = "refetch" /\ u.key = tm.key) => u = tm
            /\ tm.key \in DOMAIN CALLBACK_QUEUE
            /\ Truthy(CALLBACK_QUEUE[tm.key].fetchInterval)
            /\ CALLBACK_QUEUE[tm.key].fetchFunction \in FetchFunctions
            /\ CALLBACK_QUEUE[tm.key].fetchTimer = tm.id

====
